---- MODULE Spec2Model ----
(***************************************************************************)
(* A model of the typewriter / literature-clock application                *)
(* (typewriter.py, literature_clock.py).                                   *)
(*                                                                         *)
(* Python strings are modelled as sequences of one-character strings, so   *)
(* that slicing, suffix tests and concatenation are computed as the code   *)
(* computes them.  A key token such as 'space' is the five-character       *)
(* string <<"s","p","a","c","e">>.                                         *)
(***************************************************************************)
EXTENDS Integers, Sequences, FiniteSets, TLC

(***************************************************************************)
(* Program constants.                                                      *)
(***************************************************************************)
START_Y_OFFSET == 150

CMD_WINDOW == 6

QUOTE_CAP == 15

DEBOUNCE_MS == 50

LINE_LENGTH == 45

(***************************************************************************)
(* Bounds of the model.                                                    *)
(***************************************************************************)
\* key events handled in the exhaustive command-detection specification
MaxCmdKeys == 8

\* events handled in the specification with every kind of key
MaxKeyEvents == 5

\* minutes that pass in the specification with every kind of key
MaxKeyTicks == 1

\* minutes that pass in the clock specification
MaxClockTicks == 14

\* events the bounded queue of the model holds
MaxQueue == 2

\* minutes that pass in the specification of the whole application
MaxTicks == 2

\* 'enter' keys the typist types to fill a page
PageEnters == 48

\* raw key events the keyboard reader processes
MaxRaw == 3

\* granularity of time.time() in the model, in ms
StepMs == 10

\* steps of StepMs that pass in the keyboard reader specification
MaxMsSteps == 7

\* raw key events read in the decoder specification
MaxDecRaw == 2

\* raw events on the shift keys and a letter key in the shift specification
MaxShiftEvents == 4

\* pieces a raw quote is put together from in the sanitizer specification
MaxPieces == 5

\* times the sanitizer is applied to its own result
MaxCleanings == 2

\* pieces a text is put together from in the wrap specification
MaxWrapPieces == 5

\* raw key events read in the specification of the three threads
MaxThreadRaw == 3

\* debounce intervals that pass in the specification of the three threads
MaxThreadWaits == 1

\* minutes that pass in the specification of the three threads
MaxThreadTicks == 1

(***************************************************************************)
(* String helpers.                                                         *)
(***************************************************************************)
Max(S) == CHOOSE x \in S : \A y \in S : y <= x

\* s[i], or "" outside the string
At(s, i) == IF i >= 1 /\ i <= Len(s) THEN s[i] ELSE ""

IsSpace(c) == c \in {" ", "\n", "\t"}

IsDigit(c) == c \in {"0", "1", "2", "3", "4", "5", "6", "7", "8", "9"}

DigitChars == <<"0", "1", "2", "3", "4", "5", "6", "7", "8", "9">>

\* f"{n:02d}" for 0 <= n < 100
Fmt02d(n) == <<DigitChars[(n \div 10) + 1], DigitChars[(n % 10) + 1]>>

\* s[-n:] of a string longer than n
LastN(s, n) == SubSeq(s, Len(s) - n + 1, Len(s))

\* s.endswith(suf)
EndsWith(s, suf) ==
  /\ Len(s) >= Len(suf)
  /\ SubSeq(s, Len(s) - Len(suf) + 1, Len(s)) = suf

\* s[:-1]
DropLast(s) == IF Len(s) = 0 THEN s ELSE SubSeq(s, 1, Len(s) - 1)

(***************************************************************************)
(* Key tokens produced by _evdev_key_to_char.                              *)
(***************************************************************************)
KeySpace == <<"s", "p", "a", "c", "e">>

KeyBackspace == <<"b", "a", "c", "k", "s", "p", "a", "c", "e">>

KeyEnter == <<"e", "n", "t", "e", "r">>

ClockCommand == <<";", "c", "l", "o", "c", "k">>

(***************************************************************************)
(* clean_quote_text: the regular expressions, applied in the code's order. *)
(***************************************************************************)
\* end of the whitespace run starting at i (i - 1 when s[i] is no whitespace)
WsEnd(s, i) ==
  Max({e \in (i - 1)..Len(s) : \A j \in i..e : IsSpace(s[j])})

\* \d{1,2}:\d{2} at k: index of its last character, 0 when it does not match
HourMinuteEnd(s, k) ==
  IF /\ IsDigit(At(s, k)) /\ IsDigit(At(s, k + 1)) /\ At(s, k + 2) = ":"
     /\ IsDigit(At(s, k + 3)) /\ IsDigit(At(s, k + 4))
  THEN k + 4
  ELSE IF /\ IsDigit(At(s, k)) /\ At(s, k + 1) = ":"
          /\ IsDigit(At(s, k + 2)) /\ IsDigit(At(s, k + 3))
       THEN k + 3
       ELSE 0

\* <[^>]+> at i: index of the closing ">", 0 when it does not match
TagEnd(s, i) ==
  IF At(s, i) # "<" THEN 0
  ELSE LET closers == {j \in (i + 1)..Len(s) : s[j] = ">"}
       IN  IF closers = {} THEN 0
           ELSE LET j == CHOOSE x \in closers : \A y \in closers : x <= y
                IN  IF j >= i + 2 THEN j ELSE 0

\* \s+\d{1,2}:\d{2}:\d{2}\s+ at i: index of its last character, 0 when no match
DigitalStampEnd(s, i) ==
  IF ~IsSpace(At(s, i)) THEN 0
  ELSE LET k == WsEnd(s, i) + 1
           e == HourMinuteEnd(s, k)
       IN  IF /\ e # 0 /\ At(s, e + 1) = ":"
              /\ IsDigit(At(s, e + 2)) /\ IsDigit(At(s, e + 3))
              /\ IsSpace(At(s, e + 4))
           THEN WsEnd(s, e + 4)
           ELSE 0

\* \d{1,2}:\d{2}\s*[AP]M at k: index of the "M", 0 when no match
MeridiemEnd(s, k) ==
  LET e == HourMinuteEnd(s, k)
  IN  IF e = 0 THEN 0
      ELSE LET a == WsEnd(s, e + 1) + 1
           IN  IF At(s, a) \in {"A", "P"} /\ At(s, a + 1) = "M"
               THEN a + 1 ELSE 0

\* \s+\d{1,2}:\d{2}\s*[AP]M(?=\s|$) at i: index of the "M", 0 when no match
MeridiemStampEnd(s, i) ==
  IF ~IsSpace(At(s, i)) THEN 0
  ELSE LET m == MeridiemEnd(s, WsEnd(s, i) + 1)
       IN  IF m # 0 /\ (m = Len(s) \/ IsSpace(At(s, m + 1))) THEN m ELSE 0

\* ^\s*\d{1,2}:\d{2}\s*[AP]M\s* : index of its last character, 0 when no match
LeadingStampEnd(s) ==
  LET m == MeridiemEnd(s, WsEnd(s, 1) + 1)
  IN  IF m = 0 THEN 0 ELSE WsEnd(s, m + 1)

RECURSIVE SubTags(_, _)
\* re.sub(r'<[^>]+>', ' ', s), scanning from i
SubTags(s, i) ==
  IF i > Len(s) THEN <<>>
  ELSE IF TagEnd(s, i) # 0 THEN <<" ">> \o SubTags(s, TagEnd(s, i) + 1)
       ELSE <<s[i]>> \o SubTags(s, i + 1)

RECURSIVE SubDigitalStamps(_, _)
\* re.sub(r'\s+\d{1,2}:\d{2}:\d{2}\s+', ' ', s), scanning from i
SubDigitalStamps(s, i) ==
  IF i > Len(s) THEN <<>>
  ELSE IF DigitalStampEnd(s, i) # 0
       THEN <<" ">> \o SubDigitalStamps(s, DigitalStampEnd(s, i) + 1)
       ELSE <<s[i]>> \o SubDigitalStamps(s, i + 1)

RECURSIVE SubMeridiemStamps(_, _)
\* re.sub(r'\s+\d{1,2}:\d{2}\s*[AP]M(?=\s|$)', ' ', s), scanning from i
SubMeridiemStamps(s, i) ==
  IF i > Len(s) THEN <<>>
  ELSE IF MeridiemStampEnd(s, i) # 0
       THEN <<" ">> \o SubMeridiemStamps(s, MeridiemStampEnd(s, i) + 1)
       ELSE <<s[i]>> \o SubMeridiemStamps(s, i + 1)

\* re.sub(r'^\s*\d{1,2}:\d{2}\s*[AP]M\s*', '', s)
SubLeadingStamp(s) ==
  IF LeadingStampEnd(s) = 0 THEN s
  ELSE SubSeq(s, LeadingStampEnd(s) + 1, Len(s))

RECURSIVE SubSpaces(_, _)
\* re.sub(r'\s+', ' ', s), scanning from i
SubSpaces(s, i) ==
  IF i > Len(s) THEN <<>>
  ELSE IF IsSpace(s[i]) THEN <<" ">> \o SubSpaces(s, WsEnd(s, i) + 1)
       ELSE <<s[i]>> \o SubSpaces(s, i + 1)

\* s.strip()
Strip(s) ==
  LET keep == {i \in 1..Len(s) : ~IsSpace(s[i])}
  IN  IF keep = {} THEN <<>>
      ELSE SubSeq(s, CHOOSE x \in keep : \A y \in keep : x <= y, Max(keep))

clean_quote_text(quote_text) ==
  IF quote_text = <<>> THEN quote_text
  ELSE LET t1 == SubTags(quote_text, 1)
           t2 == SubDigitalStamps(t1, 1)
           t3 == SubMeridiemStamps(t2, 1)
           t4 == SubLeadingStamp(t3)
           t5 == SubSpaces(t4, 1)
       IN  Strip(t5)

(***************************************************************************)
(* LiteratureClockData: the quotes loaded from the CSV file, indexed by    *)
(* time code.  A small data set: two rows for 10:23, one row for 10:25,    *)
(* no row for any other minute.  The raw texts carry markup and            *)
(* timestamps, as the rows of the CSV do.                                  *)
(***************************************************************************)
\* Python's None, for a value that is otherwise a tuple: the empty tuple
None == <<>>

TC_1023 == <<"1", "0", ":", "2", "3">>

TC_1025 == <<"1", "0", ":", "2", "5">>

\* 'at<br/> 10:23:00 ten'
RAW_A == <<"a", "t", "<", "b", "r", "/", ">", " ",
           "1", "0", ":", "2", "3", ":", "0", "0", " ", "t", "e", "n">>

\* '<i>10.23</i>'
RAW_B == <<"<", "i", ">", "1", "0", ".", "2", "3", "<", "/", "i", ">">>

\* '10:25 AM now'
RAW_C == <<"1", "0", ":", "2", "5", " ", "A", "M", " ", "n", "o", "w">>

TC_0905 == <<"0", "9", ":", "0", "5">>

\* 'five past nine'
RAW_D == <<"f", "i", "v", "e", " ", "p", "a", "s", "t", " ", "n", "i", "n", "e">>

QUOTES ==
  (TC_1023 :> << [time |-> TC_1023, quote |-> RAW_A, source |-> "A"],
                 [time |-> TC_1023, quote |-> RAW_B, source |-> "B"] >>)
  @@ (TC_1025 :> << [time |-> TC_1025, quote |-> RAW_C, source |-> "C"] >>)
  @@ (TC_0905 :> << [time |-> TC_0905, quote |-> RAW_D, source |-> "D"] >>)

\* self.clock_data: the quotes of the LiteratureClockData instance
VARIABLE clock_data

\* str(n) for n < 100
FmtPlain(n) ==
  IF n < 10 THEN <<DigitChars[n + 1]>>
  ELSE <<DigitChars[(n \div 10) + 1], DigitChars[(n % 10) + 1]>>

\* the hour of the time code is not padded with a zero
get_quote_Unpadded(hour, minute) ==
  LET time_code == FmtPlain(hour) \o <<":">> \o Fmt02d(minute)
  IN  IF time_code \notin DOMAIN clock_data THEN {None}
      ELSE {<<clock_data[time_code][i]>> : i \in 1..Len(clock_data[time_code])}

\* the values get_quote(hour, minute) may return (random.choice of the rows):
\* None, or <<row>>
get_quote(hour, minute) ==
  LET time_code == Fmt02d(hour) \o <<":">> \o Fmt02d(minute)
  IN  IF time_code \notin DOMAIN clock_data THEN {None}
      ELSE {<<clock_data[time_code][i]>> : i \in 1..Len(clock_data[time_code])}

(***************************************************************************)
(* The wall clock: minutes since midnight of the day the process started.  *)
(***************************************************************************)
HourOf(t) == (t \div 60) % 24

MinuteOf(t) == t % 60

(***************************************************************************)
(* State.                                                                  *)
(***************************************************************************)
VARIABLES
  mode,             \* self.mode: "clock" | "typewriter"
  command_buffer,   \* self.command_buffer
  text,             \* self.text
  y_offset,         \* self.y_offset
  clock_quotes,     \* self.clock_quotes
  event_queue,      \* self.event_queue
  running,          \* self.running
  shift_pressed,    \* self.shift_pressed
  run_pc,           \* run(): "start" | "loop" | "done"
  kbd_pc,           \* keyboard_read_loop: "idle" | "reading" | "done"
  last_event_time,  \* keyboard_read_loop's local, in ms
  ticker_pc,        \* clock_update_loop: "idle" | "polling" | "done"
  last_minute,      \* clock_update_loop's local: None or <<hour, minute>>
  now,              \* datetime.now(), in minutes
  now_ms,           \* time.time(), in ms
  last,             \* history: the last event the consumer handled
  keyHist,          \* history: the last keys handled in this typewriter session
  nkeys,            \* history: number of events handled
  ticked,           \* history: the minutes a clock_update was enqueued for
  typist,           \* environment: the script being typed and how far it got
  nraw,             \* history: number of raw key events the reader processed
  raw,              \* history: the last raw key event the reader processed
  accepted,         \* history: the times (ms) at which a key event was enqueued
  quote_text,       \* clean_quote_text's argument, when it is called on its own
  cleaned,          \* the results of the sanitizer applied once, twice, ...
  lookup,           \* get_quote called on its own: its arguments and result
  lines             \* textwrap.fill's result, when it is called on its own

\* the fields only the consumer writes, and its history
consumerVars ==
  <<mode, command_buffer, text, y_offset, clock_quotes, last, keyHist, nkeys>>

\* keyboard_read_loop's state
readerVars ==
  <<shift_pressed, kbd_pc, last_event_time, nraw, raw, accepted>>

\* clock_update_loop's state
tickerVars == <<ticker_pc, last_minute, ticked>>

\* a function called on its own: its argument and its results
callVars == <<quote_text, cleaned, clock_data, lookup, lines>>

\* the clocks, the typist and the functions called on their own
envVars == <<now, now_ms, typist, callVars>>

vars == <<consumerVars, readerVars, tickerVars, envVars, event_queue, running,
          run_pc>>

\* outcomes of the display handoff display_image_8bpp_memory
RenderOutcomes == {"ok", "timeout"}

\* last: the event, the render its handler attempted and how the handoff ended
NoRaw == [keycode |-> <<>>, keystate |-> "none", time |-> 0]

NoLookup == [called |-> FALSE, hour |-> 0, minute |-> 0, result |-> None]

\* lines before textwrap.fill has been called
NotWrapped == <<<<"?">>>>

NoEvent == [type |-> "none", data |-> None, render |-> "none", outcome |-> "none"]

(***************************************************************************)
(* The consumer's handlers.                                                *)
(***************************************************************************)
\* the buffer is never trimmed
CommandTail_NoTrim(buf, key) == buf \o key

\* a window one character short: the buffer keeps the last 5 characters
CommandTail_KeepFive(buf, key) ==
  LET b == buf \o key
  IN  IF Len(b) > CMD_WINDOW - 1 THEN LastN(b, CMD_WINDOW - 1) ELSE b

\* command_buffer += key, then keep the last 6 characters
CommandTail(buf, key) ==
  LET b == buf \o key
  IN  IF Len(b) > CMD_WINDOW THEN LastN(b, CMD_WINDOW) ELSE b

\* the command check of _handle_keystroke
IsClockCommand(buf) == EndsWith(buf, ClockCommand)

\* 'enter' appends the line break without its padding spaces
ProcessKey_EnterNoPad(txt, key) ==
  CASE key = KeySpace -> txt \o <<" ">>
    [] key = KeyBackspace -> DropLast(txt)
    [] key = KeyEnter -> txt \o <<"\n">>
    [] OTHER -> txt \o key

\* the match statement of _process_typewriter_key
ProcessKey(txt, key) ==
  CASE key = KeySpace -> txt \o <<" ">>
    [] key = KeyBackspace -> DropLast(txt)
    [] key = KeyEnter -> txt \o <<" ", "\n", " ">>
    [] OTHER -> txt \o key

\* the offset _render_typewriter draws at: floor(len(text) * 0.007) less
RenderYOffset_FromStart(y, txt) == START_Y_OFFSET - ((7 * Len(txt)) \div 1000)

RenderYOffset(y, txt) == y - ((7 * Len(txt)) \div 1000)

\* a minute without a quote gives an empty entry
DisplayText_BlankWhenMissing(quote_data, hour, minute) ==
  IF quote_data = None
  THEN <<>>
  ELSE clean_quote_text(quote_data[1].quote)

\* the text _update_clock_display shows for one value of get_quote
DisplayText(quote_data, hour, minute) ==
  IF quote_data = None
  THEN <<"N", "o", " ", "q", "u", "o", "t", "e", " ", "f", "o", "u", "n", "d",
         " ", "f", "o", "r", " ">> \o Fmt02d(hour) \o <<":">> \o Fmt02d(minute)
  ELSE clean_quote_text(quote_data[1].quote)

\* the cap drops the entry just appended instead of the oldest one
AppendQuote_DropsNewest(quotes, display_text) ==
  LET q == Append(quotes, display_text)
  IN  IF Len(q) > QUOTE_CAP THEN SubSeq(q, 1, QUOTE_CAP) ELSE q

\* clock_quotes.append(display_text), keeping the last 15
AppendQuote(quotes, display_text) ==
  LET q == Append(quotes, display_text)
  IN  IF Len(q) > QUOTE_CAP THEN Tail(q) ELSE q

\* the lists _update_clock_display(current_time) may leave in clock_quotes
UpdatedQuotes(quotes, current_time) ==
  {AppendQuote(quotes, DisplayText(qd, HourOf(current_time), MinuteOf(current_time)))
     : qd \in get_quote(HourOf(current_time), MinuteOf(current_time))}

\* the update for a new minute also wipes the typed text
UpdateClockDisplay_ClearsText(current_time, r) ==
  /\ clock_quotes' \in UpdatedQuotes(clock_quotes, current_time)
  /\ last' = [type |-> "clock_update", data |-> <<current_time>>,
              render |-> "clock", outcome |-> r]
  /\ text' = <<>>
  /\ UNCHANGED <<mode, command_buffer, y_offset, keyHist>>

\* _update_clock_display(current_time); r is the outcome of the handoff
UpdateClockDisplay(current_time, r) ==
  /\ clock_quotes' \in UpdatedQuotes(clock_quotes, current_time)
  /\ last' = [type |-> "clock_update", data |-> <<current_time>>,
              render |-> "clock", outcome |-> r]
  /\ UNCHANGED <<mode, command_buffer, text, y_offset, keyHist>>

\* the switching key is not consumed: it is also put in the command buffer
ExitClockMode_KeepsKey(key) ==
  /\ mode' = "typewriter"
  /\ text' = <<>>
  /\ y_offset' = START_Y_OFFSET
  /\ last' = [type |-> "key", data |-> key, render |-> "none",
              outcome |-> "none"]
  /\ keyHist' = <<>>
  /\ command_buffer' = CommandTail(command_buffer, key)
  /\ UNCHANGED clock_quotes

\* the switch to Typewriter mode leaves the vertical offset where it was
ExitClockMode_KeepsOffset(key) ==
  /\ mode' = "typewriter"
  /\ text' = <<>>
  /\ last' = [type |-> "key", data |-> key, render |-> "none",
              outcome |-> "none"]
  /\ keyHist' = <<>>
  /\ UNCHANGED <<command_buffer, clock_quotes, y_offset>>

\* _handle_keystroke in Clock mode: any key switches to Typewriter mode
ExitClockMode(key) ==
  /\ mode' = "typewriter"
  /\ text' = <<>>
  /\ y_offset' = START_Y_OFFSET
  /\ last' = [type |-> "key", data |-> key, render |-> "none",
              outcome |-> "none"]
  /\ keyHist' = <<>>
  /\ UNCHANGED <<command_buffer, clock_quotes>>

\* the history is not cleared on the way into Clock mode
EnterClockMode_KeepsQuotes(key, r) ==
  /\ mode' = "clock"
  /\ clock_quotes' \in UpdatedQuotes(clock_quotes, now)
  /\ command_buffer' = <<>>
  /\ last' = [type |-> "key", data |-> key, render |-> "clock", outcome |-> r]
  /\ UNCHANGED <<text, y_offset>>

\* the key that completes the command is typed into the text as well
EnterClockMode_TypesKey(key, r) ==
  /\ mode' = "clock"
  /\ clock_quotes' \in UpdatedQuotes(<<>>, now)
  /\ command_buffer' = <<>>
  /\ last' = [type |-> "key", data |-> key, render |-> "clock", outcome |-> r]
  /\ text' = ProcessKey(text, key)
  /\ UNCHANGED y_offset

\* the buffer is not cleared after _enter_clock_mode()
EnterClockMode_KeepsBuffer(key, r) ==
  /\ mode' = "clock"
  /\ clock_quotes' \in UpdatedQuotes(<<>>, now)
  /\ command_buffer' = CommandTail(command_buffer, key)
  /\ last' = [type |-> "key", data |-> key, render |-> "clock", outcome |-> r]
  /\ UNCHANGED <<text, y_offset>>

\* _enter_clock_mode() and the clearing of the buffer that follows it
EnterClockMode(key, r) ==
  /\ mode' = "clock"
  /\ clock_quotes' \in UpdatedQuotes(<<>>, now)
  /\ command_buffer' = <<>>
  /\ last' = [type |-> "key", data |-> key, render |-> "clock", outcome |-> r]
  /\ UNCHANGED <<text, y_offset>>

\* a timed-out render undoes the keystroke
ProcessTypewriterKey_RollsBack(key, r) ==
  /\ command_buffer' = CommandTail(command_buffer, key)
  /\ text' = IF r = "timeout" THEN text ELSE ProcessKey(text, key)
  /\ y_offset' = RenderYOffset(y_offset, ProcessKey(text, key))
  /\ last' = [type |-> "key", data |-> key, render |-> "typewriter",
              outcome |-> r]
  /\ UNCHANGED <<mode, clock_quotes>>

\* _process_typewriter_key(key), after the buffer was updated
ProcessTypewriterKey(key, r) ==
  /\ command_buffer' = CommandTail(command_buffer, key)
  /\ text' = ProcessKey(text, key)
  /\ y_offset' = RenderYOffset(y_offset, ProcessKey(text, key))
  /\ last' = [type |-> "key", data |-> key, render |-> "typewriter",
              outcome |-> r]
  /\ UNCHANGED <<mode, clock_quotes>>

\* _handle_keystroke(key); r is the outcome of the handoff of its render
HandleKeystroke(key, r) ==
  IF mode = "clock"
  THEN r = "ok" /\ ExitClockMode(key)
  ELSE /\ keyHist' = IF Len(keyHist) >= CMD_WINDOW
                     THEN Append(Tail(keyHist), key) ELSE Append(keyHist, key)
       /\ IF IsClockCommand(CommandTail(command_buffer, key))
          THEN EnterClockMode(key, r)
          ELSE ProcessTypewriterKey(key, r)

\* the dispatch of run()'s loop on one dequeued event
Dispatch(ev, r) ==
  /\ nkeys' = nkeys + 1
  /\ IF ev.type = "key" THEN HandleKeystroke(ev.data, r)
     ELSE UpdateClockDisplay(ev.data, r)

(***************************************************************************)
(* Initial state: the fields set by __init__, before run() is called.      *)
(***************************************************************************)
StartMinute == 623

StartMs == 1000

InitState(t, sc, qt) ==
  /\ mode = "clock"
  /\ command_buffer = <<>>
  /\ text = <<>>
  /\ y_offset = START_Y_OFFSET
  /\ clock_quotes = <<>>
  /\ event_queue = <<>>
  /\ running = TRUE
  /\ shift_pressed = FALSE
  /\ run_pc = "start"
  /\ kbd_pc = "idle"
  /\ last_event_time = 0
  /\ ticker_pc = "idle"
  /\ last_minute = None
  /\ now = t
  /\ now_ms = StartMs
  /\ last = NoEvent
  /\ keyHist = <<>>
  /\ nkeys = 0
  /\ ticked = <<>>
  /\ typist = [script |-> sc, pos |-> 0]
  /\ nraw = 0
  /\ raw = NoRaw
  /\ accepted = <<>>
  /\ quote_text = qt
  /\ cleaned = <<>>
  /\ clock_data = QUOTES
  /\ lookup = NoLookup
  /\ lines = NotWrapped

InitApp(t, sc) == InitState(t, sc, <<>>)

InitAt(t) == InitApp(t, "none")

\* run() up to its loop: the initial quote, then the two threads are started
RunStart(r) ==
  /\ run_pc = "start"
  /\ clock_quotes' \in UpdatedQuotes(clock_quotes, now)
  /\ last' = [type |-> "start", data |-> <<now>>, render |-> "clock",
              outcome |-> r]
  /\ run_pc' = "loop"
  /\ kbd_pc' = "reading"
  /\ ticker_pc' = "polling"
  /\ UNCHANGED <<mode, command_buffer, text, y_offset, keyHist, nkeys,
                 event_queue, running, shift_pressed, last_event_time, nraw,
                 raw, accepted, last_minute, ticked, envVars>>

Start == \E r \in RenderOutcomes : RunStart(r)

(***************************************************************************)
(* Command detection: every sequence of up to MaxCmdKeys key events over   *)
(* the keys of the command and backspace, handled by the consumer.         *)
(***************************************************************************)
CmdKeys == {<<";">>, <<"c">>, <<"l">>, <<"o">>, <<"k">>, KeyBackspace}

CmdKey ==
  \E key \in CmdKeys, r \in RenderOutcomes :
    /\ run_pc = "loop" /\ running
    /\ nkeys < MaxCmdKeys
    /\ Dispatch([type |-> "key", data |-> key], r)
    /\ UNCHANGED <<event_queue, running, run_pc, readerVars, tickerVars,
                   envVars>>

InitCmd == InitAt(StartMinute)

NextCmd == Start \/ CmdKey

SpecCmd == InitCmd /\ [][NextCmd]_vars

(***************************************************************************)
(* Every kind of key: short sequences of key and clock_update events, with *)
(* the letters, the three control tokens and time passing.                 *)
(***************************************************************************)
AllKeys == {<<"h">>, <<"K">>, <<";">>, KeySpace, KeyBackspace, KeyEnter}

\* the wall clock moves on by a minute
Advance(maxTicks) ==
  /\ now < StartMinute + maxTicks
  /\ now' = now + 1
  /\ UNCHANGED <<consumerVars, readerVars, tickerVars, now_ms, typist, callVars,
                 event_queue, running, run_pc>>

KeysKey ==
  \E key \in AllKeys, r \in RenderOutcomes :
    /\ run_pc = "loop" /\ running
    /\ nkeys < MaxKeyEvents
    /\ Dispatch([type |-> "key", data |-> key], r)
    /\ UNCHANGED <<event_queue, running, run_pc, readerVars, tickerVars,
                   envVars>>

\* a clock_update event, enqueued at some minute up to now
KeysClockUpdate ==
  \E t \in StartMinute..now, r \in RenderOutcomes :
    /\ run_pc = "loop" /\ running
    /\ nkeys < MaxKeyEvents
    /\ Dispatch([type |-> "clock_update", data |-> t], r)
    /\ UNCHANGED <<event_queue, running, run_pc, readerVars, tickerVars,
                   envVars>>

KeysAdvance == Advance(MaxKeyTicks)

InitKeys == InitAt(StartMinute)

NextKeys == Start \/ KeysKey \/ KeysClockUpdate \/ KeysAdvance

SpecKeys == InitKeys /\ [][NextKeys]_vars

(***************************************************************************)
(* The threads: the ticker, the keyboard reader's enqueue, the consumer.   *)
(***************************************************************************)
\* one iteration of clock_update_loop that never records the minute it saw
TickerPoll_ForgetsMinute ==
  /\ ticker_pc = "polling"
  /\ IF ~running
     THEN /\ ticker_pc' = "done"
          /\ UNCHANGED <<last_minute, ticked, event_queue>>
     ELSE /\ mode = "clock"
          /\ <<HourOf(now), MinuteOf(now)>> # last_minute
          /\ Len(event_queue) < MaxQueue
          /\ event_queue' =
               Append(event_queue, [type |-> "clock_update", data |-> now])
          /\ ticked' = Append(ticked, now)
          /\ UNCHANGED <<ticker_pc, last_minute>>
  /\ UNCHANGED <<consumerVars, readerVars, envVars, running, run_pc>>

\* the ticker updates the history itself instead of enqueuing an event
TickerPoll_UpdatesHistory ==
  /\ ticker_pc = "polling"
  /\ IF ~running
     THEN /\ ticker_pc' = "done"
          /\ UNCHANGED <<last_minute, ticked, clock_quotes>>
     ELSE /\ mode = "clock"
          /\ <<HourOf(now), MinuteOf(now)>> # last_minute
          /\ clock_quotes' \in UpdatedQuotes(clock_quotes, now)
          /\ last_minute' = <<HourOf(now), MinuteOf(now)>>
          /\ ticked' = Append(ticked, now)
          /\ UNCHANGED ticker_pc
  /\ UNCHANGED <<mode, command_buffer, text, y_offset, last, keyHist, nkeys,
                 event_queue, readerVars, envVars, running, run_pc>>

\* one iteration of clock_update_loop: the test of running, the poll of the
\* clock in Clock mode, the put; an iteration that puts nothing changes nothing
TickerPoll ==
  /\ ticker_pc = "polling"
  /\ IF ~running
     THEN /\ ticker_pc' = "done"
          /\ UNCHANGED <<last_minute, ticked, event_queue>>
     ELSE /\ mode = "clock"
          /\ <<HourOf(now), MinuteOf(now)>> # last_minute
          /\ Len(event_queue) < MaxQueue
          /\ event_queue' =
               Append(event_queue, [type |-> "clock_update", data |-> now])
          /\ last_minute' = <<HourOf(now), MinuteOf(now)>>
          /\ ticked' = Append(ticked, now)
          /\ UNCHANGED ticker_pc
  /\ UNCHANGED <<consumerVars, readerVars, envVars, running, run_pc>>

\* the consumer takes the newest event of the queue instead of the oldest
Consume_TakesNewest ==
  /\ run_pc = "loop"
  /\ IF ~running
     THEN /\ run_pc' = "done"
          /\ UNCHANGED <<consumerVars, event_queue>>
     ELSE /\ event_queue # <<>>
          /\ \E r \in RenderOutcomes :
               Dispatch(event_queue[Len(event_queue)], r)
          /\ event_queue' = DropLast(event_queue)
          /\ UNCHANGED run_pc
  /\ UNCHANGED <<readerVars, tickerVars, envVars, running>>

\* one iteration of run()'s loop: the test of running, the get, the dispatch;
\* a get that times out on the empty queue changes nothing
Consume ==
  /\ run_pc = "loop"
  /\ IF ~running
     THEN /\ run_pc' = "done"
          /\ UNCHANGED <<consumerVars, event_queue>>
     ELSE /\ event_queue # <<>>
          /\ \E r \in RenderOutcomes : Dispatch(Head(event_queue), r)
          /\ event_queue' = Tail(event_queue)
          /\ UNCHANGED run_pc
  /\ UNCHANGED <<readerVars, tickerVars, envVars, running>>

(***************************************************************************)
(* The typist: the keys typed at the keyboard, one of two scripts.  Each   *)
(* starts with the key that leaves Clock mode.                             *)
(*   "hi":   h, then h i ; c l o c k, then h                               *)
(*   "page": enter, then PageEnters times enter, then ; c l o c k, then h  *)
(***************************************************************************)
Script(id) ==
  CASE id = "hi" ->
         <<<<"h">>, <<"h">>, <<"i">>, <<";">>, <<"c">>, <<"l">>, <<"o">>,
           <<"c">>, <<"k">>, <<"h">>>>
    [] id = "page" ->
         <<KeyEnter>> \o [i \in 1..PageEnters |-> KeyEnter]
           \o <<<<";">>, <<"c">>, <<"l">>, <<"o">>, <<"c">>, <<"k">>, <<"h">>>>
    [] OTHER -> <<>>

\* keyboard_read_loop enqueues the next key typed: a key-down that passed the
\* debounce gate and was decoded
KbdPut ==
  /\ kbd_pc = "reading" /\ running
  /\ typist.pos < Len(Script(typist.script))
  /\ Len(event_queue) < MaxQueue
  /\ event_queue' =
       Append(event_queue,
              [type |-> "key", data |-> Script(typist.script)[typist.pos + 1]])
  /\ typist' = [typist EXCEPT !.pos = @ + 1]
  /\ UNCHANGED <<consumerVars, readerVars, tickerVars, now, now_ms, callVars,
                 running, run_pc>>

(***************************************************************************)
(* The clock: the ticker and the consumer over MaxClockTicks minutes, no   *)
(* key typed.                                                              *)
(***************************************************************************)
ClockAdvance == Advance(MaxClockTicks)

InitClock == InitAt(StartMinute)

NextClock == Start \/ TickerPoll \/ Consume \/ ClockAdvance

SpecClock == InitClock /\ [][NextClock]_vars

(***************************************************************************)
(* The whole application: the typist's keys enqueued by the reader, the    *)
(* ticker, the consumer, and the clock moving on.                          *)
(***************************************************************************)
Tick == Advance(MaxTicks)

Init == \E sc \in {"hi", "page"} : InitApp(StartMinute, sc)

Next == Start \/ KbdPut \/ TickerPoll \/ Consume \/ Tick

Spec == Init /\ [][Next]_vars

\* the step of run()'s loop that takes the oldest event off the queue and
\* handles it: the step of Consume that dispatches, whatever the handler does
GetAndHandle ==
  /\ run_pc = "loop" /\ running
  /\ event_queue # <<>>
  /\ event_queue' = Tail(event_queue)
  /\ nkeys' = nkeys + 1

\* the typist of the first script, with the consumer's loop scheduled: the get
\* returns an event that is in the queue, and every handler returns
InitLive == InitApp(StartMinute, "hi")

SpecLive ==
  InitLive /\ [][Next]_vars /\ WF_<<event_queue, nkeys>>(GetAndHandle)

(***************************************************************************)
(* The keyboard reader: evdev key codes, the decoder, one raw event.       *)
(***************************************************************************)
KEY_SPACE == <<"K", "E", "Y", "_", "S", "P", "A", "C", "E">>

KEY_BACKSPACE == <<"K", "E", "Y", "_", "B", "A", "C", "K", "S", "P", "A", "C", "E">>

KEY_ENTER == <<"K", "E", "Y", "_", "E", "N", "T", "E", "R">>

KEY_LEFTSHIFT == <<"K", "E", "Y", "_", "L", "E", "F", "T", "S", "H", "I", "F", "T">>

KEY_RIGHTSHIFT == <<"K", "E", "Y", "_", "R", "I", "G", "H", "T", "S", "H", "I", "F", "T">>

KEY_SEMICOLON == <<"K", "E", "Y", "_", "S", "E", "M", "I", "C", "O", "L", "O", "N">>

KEY_A == <<"K", "E", "Y", "_", "A">>

KEY_1 == <<"K", "E", "Y", "_", "1">>

KEY_F1 == <<"K", "E", "Y", "_", "F", "1">>

KEY_TAB == <<"K", "E", "Y", "_", "T", "A", "B">>

KEY_ESC == <<"K", "E", "Y", "_", "E", "S", "C">>

BTN_A == <<"B", "T", "N", "_", "A">>

LowerLetters ==
  <<"a", "b", "c", "d", "e", "f", "g", "h", "i", "j", "k", "l", "m", "n", "o",
    "p", "q", "r", "s", "t", "u", "v", "w", "x", "y", "z">>

UpperLetters ==
  <<"A", "B", "C", "D", "E", "F", "G", "H", "I", "J", "K", "L", "M", "N", "O",
    "P", "Q", "R", "S", "T", "U", "V", "W", "X", "Y", "Z">>

\* str.lower() and str.upper() of one character
Lower(c) ==
  IF \E i \in 1..26 : UpperLetters[i] = c
  THEN LowerLetters[CHOOSE i \in 1..26 : UpperLetters[i] = c]
  ELSE c

Upper(c) ==
  IF \E i \in 1..26 : LowerLetters[i] = c
  THEN UpperLetters[CHOOSE i \in 1..26 : LowerLetters[i] = c]
  ELSE c

\* 'a' <= c <= 'z'
IsLowerLetter(c) == \E i \in 1..26 : LowerLetters[i] = c

StartsWith(s, prefix) ==
  Len(s) >= Len(prefix) /\ SubSeq(s, 1, Len(prefix)) = prefix

shift_map ==
  ("1" :> "!") @@ ("2" :> "@") @@ ("3" :> "#") @@ ("4" :> "$") @@
  ("5" :> "%") @@ ("6" :> "^") @@ ("7" :> "&") @@ ("8" :> "*") @@
  ("9" :> "(") @@ ("0" :> ")")

\* the table of the punctuation keys, as pairs <<key code, character>>
punct_map(shift) ==
  {<<KEY_SEMICOLON, IF ~shift THEN <<";">> ELSE <<":">>>>,
     <<<<"K", "E", "Y", "_", "C", "O", "M", "M", "A">>, <<",">>>>,
     <<<<"K", "E", "Y", "_", "D", "O", "T">>, <<".">>>>,
     <<<<"K", "E", "Y", "_", "S", "L", "A", "S", "H">>, <<"/">>>>,
     <<<<"K", "E", "Y", "_", "A", "P", "O", "S", "T", "R", "O", "P", "H", "E">>, <<"'">>>>,
     <<<<"K", "E", "Y", "_", "M", "I", "N", "U", "S">>, <<"-">>>>,
     <<<<"K", "E", "Y", "_", "E", "Q", "U", "A", "L">>, <<"=">>>>,
     <<<<"K", "E", "Y", "_", "L", "E", "F", "T", "B", "R", "A", "C", "E">>, <<"[">>>>,
     <<<<"K", "E", "Y", "_", "R", "I", "G", "H", "T", "B", "R", "A", "C", "E">>, <<"]">>>>,
     <<<<"K", "E", "Y", "_", "B", "A", "C", "K", "S", "L", "A", "S", "H">>, <<"\\">>>>}

\* the decoder takes the fifth character of any KEY_ code, whatever its length
_evdev_key_to_char_AnyLength(keycode, shift) ==
  IF keycode = KEY_SPACE THEN KeySpace
  ELSE IF keycode = KEY_BACKSPACE THEN KeyBackspace
  ELSE IF keycode = KEY_ENTER THEN KeyEnter
  ELSE IF /\ StartsWith(keycode, <<"K", "E", "Y", "_">>) /\ Len(keycode) >= 5
          /\ IsLowerLetter(Lower(keycode[5]))
       THEN IF shift THEN <<Upper(Lower(keycode[5]))>>
                     ELSE <<Lower(keycode[5])>>
  ELSE IF /\ StartsWith(keycode, <<"K", "E", "Y", "_">>) /\ Len(keycode) >= 5
          /\ IsDigit(keycode[5])
       THEN IF shift THEN <<shift_map[keycode[5]]>> ELSE <<keycode[5]>>
  ELSE IF \E e \in punct_map(shift) : e[1] = keycode
       THEN (CHOOSE e \in punct_map(shift) : e[1] = keycode)[2]
  ELSE None

\* _evdev_key_to_char(keycode) with self.shift_pressed = shift
_evdev_key_to_char(keycode, shift) ==
  IF keycode = KEY_SPACE THEN KeySpace
  ELSE IF keycode = KEY_BACKSPACE THEN KeyBackspace
  ELSE IF keycode = KEY_ENTER THEN KeyEnter
  ELSE IF /\ StartsWith(keycode, <<"K", "E", "Y", "_">>) /\ Len(keycode) = 5
          /\ IsLowerLetter(Lower(keycode[5]))
       THEN IF shift THEN <<Upper(Lower(keycode[5]))>>
                     ELSE <<Lower(keycode[5])>>
  ELSE IF /\ StartsWith(keycode, <<"K", "E", "Y", "_">>) /\ Len(keycode) = 5
          /\ IsDigit(keycode[5])
       THEN IF shift THEN <<shift_map[keycode[5]]>> ELSE <<keycode[5]>>
  ELSE IF \E e \in punct_map(shift) : e[1] = keycode
       THEN (CHOOSE e \in punct_map(shift) : e[1] = keycode)[2]
  ELSE None

\* the reader stamps every key-down that passes the gate, decoded or not
ReadKey_StampsUndecoded(keycode, keystate) ==
  /\ kbd_pc = "reading"
  /\ nraw' = nraw + 1
  /\ raw' = [keycode |-> keycode, keystate |-> keystate, time |-> now_ms]
  /\ IF ~running
     THEN /\ kbd_pc' = "done"
          /\ UNCHANGED <<shift_pressed, last_event_time, accepted, event_queue>>
     ELSE IF keycode \in {KEY_LEFTSHIFT, KEY_RIGHTSHIFT}
     THEN /\ shift_pressed' = (keystate = "down")
          /\ UNCHANGED <<kbd_pc, last_event_time, accepted, event_queue>>
     ELSE IF keystate = "down" /\ ~(now_ms - last_event_time < DEBOUNCE_MS)
     THEN /\ last_event_time' = now_ms
          /\ IF _evdev_key_to_char(keycode, shift_pressed) # None
             THEN /\ event_queue' =
                       Append(event_queue,
                              [type |-> "key",
                               data |-> _evdev_key_to_char(keycode, shift_pressed)])
                  /\ accepted' = Append(accepted, now_ms)
             ELSE UNCHANGED <<accepted, event_queue>>
          /\ UNCHANGED <<kbd_pc, shift_pressed>>
     ELSE UNCHANGED <<kbd_pc, shift_pressed, last_event_time, accepted,
                      event_queue>>
  /\ UNCHANGED <<consumerVars, tickerVars, envVars, running, run_pc>>

\* one iteration of keyboard_read_loop for an EV_KEY event: the test of
\* running, the shift keys, the debounce gate at time.time(), the decoder,
\* the put
ReadKey(keycode, keystate) ==
  /\ kbd_pc = "reading"
  /\ nraw' = nraw + 1
  /\ raw' = [keycode |-> keycode, keystate |-> keystate, time |-> now_ms]
  /\ IF ~running
     THEN /\ kbd_pc' = "done"
          /\ UNCHANGED <<shift_pressed, last_event_time, accepted, event_queue>>
     ELSE IF keycode \in {KEY_LEFTSHIFT, KEY_RIGHTSHIFT}
     THEN /\ shift_pressed' = (keystate = "down")
          /\ UNCHANGED <<kbd_pc, last_event_time, accepted, event_queue>>
     ELSE IF /\ keystate = "down"
             /\ ~(now_ms - last_event_time < DEBOUNCE_MS)
             /\ _evdev_key_to_char(keycode, shift_pressed) # None
     THEN /\ event_queue' =
               Append(event_queue,
                      [type |-> "key",
                       data |-> _evdev_key_to_char(keycode, shift_pressed)])
          /\ last_event_time' = now_ms
          /\ accepted' = Append(accepted, now_ms)
          /\ UNCHANGED <<kbd_pc, shift_pressed>>
     ELSE UNCHANGED <<kbd_pc, shift_pressed, last_event_time, accepted,
                      event_queue>>
  /\ UNCHANGED <<consumerVars, tickerVars, envVars, running, run_pc>>

\* the reader ends on OSError and leaves the running flag as it is
KbdDisconnect_KeepsRunning ==
  /\ kbd_pc = "reading"
  /\ kbd_pc' = "disconnected"
  /\ UNCHANGED <<consumerVars, tickerVars, envVars, event_queue, run_pc,
                 shift_pressed, last_event_time, nraw, raw, accepted, running>>

\* the device read raises OSError: the reader sets running to False and ends
KbdDisconnect ==
  /\ kbd_pc = "reading"
  /\ kbd_pc' = "disconnected"
  /\ running' = FALSE
  /\ UNCHANGED <<consumerVars, tickerVars, envVars, event_queue, run_pc,
                 shift_pressed, last_event_time, nraw, raw, accepted>>

\* KeyboardInterrupt in run()'s loop: the finally clause sets running to False
Interrupt ==
  /\ run_pc = "loop"
  /\ run_pc' = "done"
  /\ running' = FALSE
  /\ UNCHANGED <<consumerVars, readerVars, tickerVars, envVars, event_queue>>

(***************************************************************************)
(* The keyboard reader: MaxRaw raw events of a letter key, an unmapped     *)
(* key and a shift key, read at times StepMs apart, with the consumer.     *)
(***************************************************************************)
RawKeycodes == {KEY_A, KEY_F1, KEY_LEFTSHIFT}

RawKeystates == {"down", "up"}

KbdEvent ==
  \E keycode \in RawKeycodes, keystate \in RawKeystates :
    /\ nraw < MaxRaw
    /\ Len(event_queue) < MaxQueue
    /\ ReadKey(keycode, keystate)

AdvanceMs ==
  /\ now_ms < StartMs + StepMs * MaxMsSteps
  /\ now_ms' = now_ms + StepMs
  /\ UNCHANGED <<consumerVars, readerVars, tickerVars, now, typist, callVars,
                 event_queue, running, run_pc>>

InitReader == InitAt(StartMinute)

NextReader ==
  Start \/ KbdEvent \/ KbdDisconnect \/ Interrupt \/ Consume \/ AdvanceMs

SpecReader == InitReader /\ [][NextReader]_vars

\* the same, with the consumer's loop scheduled: an iteration of run()'s loop
\* that can be taken is taken (the get times out after 0.1 s, a handler
\* returns)
SpecReaderLive == SpecReader /\ WF_vars(Consume)

(***************************************************************************)
(* The three threads together: the reader on raw events of a letter key    *)
(* and a shift key, read now or a debounce interval later, a disconnect,   *)
(* the ticker, the consumer, and the minutes passing.                      *)
(***************************************************************************)
ThreadsKbd ==
  \E keycode \in {KEY_A, KEY_LEFTSHIFT}, keystate \in RawKeystates :
    /\ nraw < MaxThreadRaw
    /\ Len(event_queue) < MaxQueue
    /\ ReadKey(keycode, keystate)

\* the time between two raw events: none, or a debounce interval
ThreadsWait ==
  /\ now_ms < StartMs + DEBOUNCE_MS * MaxThreadWaits
  /\ now_ms' = now_ms + DEBOUNCE_MS
  /\ UNCHANGED <<consumerVars, readerVars, tickerVars, now, typist, callVars,
                 event_queue, running, run_pc>>

ThreadsTick == Advance(MaxThreadTicks)

InitThreads == InitAt(StartMinute)

NextThreads ==
  \/ Start
  \/ ThreadsKbd
  \/ KbdDisconnect
  \/ TickerPoll
  \/ Consume
  \/ ThreadsWait
  \/ ThreadsTick

SpecThreads == InitThreads /\ [][NextThreads]_vars

(***************************************************************************)
(* The decoder: MaxDecRaw raw events over the letter keys, the digit keys, *)
(* the control keys, the shift keys, a punctuation key and codes the       *)
(* decoder does not map.                                                   *)
(***************************************************************************)
\* the evdev code of the letter or digit key c
KeyCode(c) == <<"K", "E", "Y", "_", c>>

UnmappedKeycodes == {KEY_F1, KEY_TAB, KEY_ESC, BTN_A}

DecoderKeycodes ==
  {KeyCode(UpperLetters[i]) : i \in 1..26}
    \cup {KeyCode(DigitChars[i]) : i \in 1..10}
    \cup {KEY_SPACE, KEY_BACKSPACE, KEY_ENTER, KEY_LEFTSHIFT, KEY_RIGHTSHIFT,
          KEY_SEMICOLON}
    \cup UnmappedKeycodes

DecEvent ==
  \E keycode \in DecoderKeycodes, keystate \in RawKeystates :
    /\ nraw < MaxDecRaw
    /\ ReadKey(keycode, keystate)

InitDecoder == InitAt(StartMinute)

NextDecoder == Start \/ DecEvent

SpecDecoder == InitDecoder /\ [][NextDecoder]_vars

(***************************************************************************)
(* The shift keys: every sequence of MaxShiftEvents raw events that two    *)
(* shift keys and a letter key can produce (a key goes down when it is up, *)
(* repeats or goes up when it is down), read by the reader as time passes. *)
(***************************************************************************)
ShiftKeycodes == {KEY_LEFTSHIFT, KEY_RIGHTSHIFT}

\* evdev's key_down, key_hold (auto-repeat) and key_up
ShiftEvents ==
  [keycode : ShiftKeycodes \cup {KEY_A}, keystate : {"down", "hold", "up"}]

\* the key is physically down after the first n events of the sequence
PhysHeld(events, n, keycode) ==
  \E i \in 1..n :
    /\ events[i] = [keycode |-> keycode, keystate |-> "down"]
    /\ \A j \in (i + 1)..n :
         events[j] # [keycode |-> keycode, keystate |-> "up"]

\* the sequences a keyboard can produce
ShiftScripts ==
  {events \in [1..MaxShiftEvents -> ShiftEvents] :
     \A i \in 1..MaxShiftEvents :
       (events[i].keystate = "down") <=>
         ~PhysHeld(events, i - 1, events[i].keycode)}

\* the reader reads the next event of the sequence
ShiftRead ==
  /\ nraw < Len(typist.script)
  /\ ReadKey(typist.script[nraw + 1].keycode, typist.script[nraw + 1].keystate)

InitShift == \E events \in ShiftScripts : InitApp(StartMinute, events)

NextShift == Start \/ ShiftRead \/ AdvanceMs

SpecShift == InitShift /\ [][NextShift]_vars

(***************************************************************************)
(* The sanitizer on its own: a raw quote of up to MaxPieces pieces (a      *)
(* letter, a space, a digital timestamp, an AM timestamp, a tag, a lone    *)
(* bracket), cleaned and cleaned again.                                    *)
(***************************************************************************)
SanPieces ==
  {<<"a">>, <<" ">>,
   <<"1", "2", ":", "3", "7", ":", "4", "5">>,
   <<"1", "2", ":", "3", "7", " ", "A", "M">>,
   <<"<", "b", "r", "/", ">">>,
   <<"<">>}

RECURSIVE Flatten(_)
Flatten(pieces) ==
  IF pieces = <<>> THEN <<>> ELSE Head(pieces) \o Flatten(Tail(pieces))

SanInputs ==
  UNION {{Flatten(pieces) : pieces \in [1..n -> SanPieces]} : n \in 0..MaxPieces}

\* clean_quote_text applied to the raw quote, then to its own result
Sanitize ==
  /\ Len(cleaned) < MaxCleanings
  /\ cleaned' =
       Append(cleaned,
              clean_quote_text(IF cleaned = <<>> THEN quote_text
                                                 ELSE cleaned[Len(cleaned)]))
  /\ UNCHANGED <<consumerVars, readerVars, tickerVars, now, now_ms, typist,
                 quote_text, clock_data, lookup, lines, event_queue, running,
                 run_pc>>

InitSanitizer == \E qt \in SanInputs : InitState(StartMinute, "none", qt)

NextSanitizer == Sanitize

SpecSanitizer == InitSanitizer /\ [][NextSanitizer]_vars

(***************************************************************************)
(* get_quote on its own: called for any hour and minute of the day.        *)
(***************************************************************************)
GetQuote ==
  \E hour \in 0..23, minute \in 0..59 :
    /\ lookup' \in {[called |-> TRUE, hour |-> hour, minute |-> minute,
                     result |-> res] : res \in get_quote(hour, minute)}
    /\ UNCHANGED <<consumerVars, readerVars, tickerVars, now, now_ms, typist,
                   quote_text, cleaned, clock_data, lines, event_queue, running,
                   run_pc>>

InitQuotes == InitAt(StartMinute)

NextQuotes == GetQuote

SpecQuotes == InitQuotes /\ [][NextQuotes]_vars

(***************************************************************************)
(* textwrap.fill(text, LINE_LENGTH) with the library's defaults, as both   *)
(* renders call it: whitespace becomes spaces, the text is split into      *)
(* chunks (runs of spaces, words, the parts of a hyphenated word, dashes)  *)
(* and the chunks are packed greedily into lines.  The result is the       *)
(* sequence of lines that fill joins with newlines.  The texts wrapped     *)
(* here hold no tab.                                                       *)
(***************************************************************************)
\* [^\d\W], \w and [\w!"'&.,?] of wordsep_re
IsLetter(c) ==
  c = "_" \/ \E i \in 1..26 : LowerLetters[i] = c \/ UpperLetters[i] = c

IsWordChar(c) == IsLetter(c) \/ IsDigit(c)

IsWordPunct(c) == IsWordChar(c) \/ c \in {"!", "\"", "'", "&", ".", ",", "?"}

\* _munge_whitespace: every whitespace character becomes a space
MungeWhitespace(txt) ==
  [i \in 1..Len(txt) |-> IF IsSpace(txt[i]) THEN " " ELSE txt[i]]

\* end of the run of hyphens starting at i (i - 1 when s[i] is no hyphen)
RECURSIVE HyphensEnd(_, _)
HyphensEnd(s, i) == IF At(s, i) = "-" THEN HyphensEnd(s, i + 1) ELSE i - 1

\* end of the run of spaces starting at i
RECURSIVE SpacesEnd(_, _)
SpacesEnd(s, i) == IF At(s, i) = " " THEN SpacesEnd(s, i + 1) ELSE i - 1

\* -{2,}(?=\w) matches at i: a dash of two or more hyphens before a word
DashAt(s, i) ==
  LET e == HyphensEnd(s, i) IN e >= i + 1 /\ IsWordChar(At(s, e + 1))

\* the hyphen s[i] ends a part of a hyphenated word: two letters (or letter,
\* hyphen, letter) before it, and a letter, an optional hyphen and a letter
\* after it
HyphenBreak(s, i) ==
  /\ At(s, i) = "-"
  /\ \/ IsLetter(At(s, i - 2)) /\ IsLetter(At(s, i - 1))
     \/ IsLetter(At(s, i - 3)) /\ At(s, i - 2) = "-" /\ IsLetter(At(s, i - 1))
  /\ IsLetter(At(s, i + 1))
  /\ \/ IsLetter(At(s, i + 2))
     \/ At(s, i + 2) = "-" /\ IsLetter(At(s, i + 3))

\* the word alternative of wordsep_re, its lazy part reaching s[q]: the chunk
\* ends after a breaking hyphen, at the end of the word or before a dash
RECURSIVE WordChunkEnd(_, _)
WordChunkEnd(s, q) ==
  IF HyphenBreak(s, q + 1) THEN q + 1
  ELSE IF q >= Len(s) \/ At(s, q + 1) = " " THEN q
  ELSE IF IsWordPunct(s[q]) /\ DashAt(s, q + 1) THEN q
  ELSE WordChunkEnd(s, q + 1)

\* the last character of the chunk wordsep_re matches at p
ChunkEnd(s, p) ==
  IF s[p] = " " THEN SpacesEnd(s, p)
  ELSE IF IsWordPunct(At(s, p - 1)) /\ DashAt(s, p) THEN HyphensEnd(s, p)
  ELSE WordChunkEnd(s, p)

\* _split: the chunks of the text from position p on
RECURSIVE Split(_, _)
Split(s, p) ==
  IF p > Len(s) THEN <<>>
  ELSE LET e == ChunkEnd(s, p) IN <<SubSeq(s, p, e)>> \o Split(s, e + 1)

\* chunk.strip() == ''
IsBlank(chunk) == \A i \in 1..Len(chunk) : chunk[i] = " "

\* ''.join(chunks)
RECURSIVE Join(_)
Join(chunks) == IF chunks = <<>> THEN <<>> ELSE Head(chunks) \o Join(Tail(chunks))

\* _handle_long_word: how much of a chunk longer than the width goes on the
\* current line
LongWordCut_WholeWord(chunk, space_left) == Len(chunk)

LongWordCut(chunk, space_left) ==
  LET inside == {i \in 1..space_left : At(chunk, i) = "-"}
      hyphen == IF inside = {} THEN -1 ELSE Max(inside) - 1
  IN  IF /\ Len(chunk) > space_left
         /\ hyphen > 0
         /\ \E i \in 1..hyphen : chunk[i] # "-"
      THEN hyphen + 1
      ELSE space_left

\* the inner loop of _wrap_chunks: how many of the next chunks fit the line
RECURSIVE Fitting(_, _, _)
Fitting(chunks, cur_len, width) ==
  IF chunks # <<>> /\ cur_len + Len(Head(chunks)) <= width
  THEN 1 + Fitting(Tail(chunks), cur_len + Len(Head(chunks)), width)
  ELSE 0

\* _wrap_chunks: one line per pass of the outer loop
RECURSIVE WrapChunks(_, _, _)
WrapChunks(chunks, width, done) ==
  IF chunks = <<>> THEN done
  ELSE
    LET left == IF IsBlank(Head(chunks)) /\ done # <<>> THEN Tail(chunks)
                ELSE chunks
        n == Fitting(left, 0, width)
        fitted == SubSeq(left, 1, n)
        rest == SubSeq(left, n + 1, Len(left))
        long == rest # <<>> /\ Len(Head(rest)) > width
        end == LongWordCut(Head(rest), width - Len(Join(fitted)))
        cur_line == IF long THEN Append(fitted, SubSeq(Head(rest), 1, end))
                    ELSE fitted
        after == IF long
                 THEN <<SubSeq(Head(rest), end + 1, Len(Head(rest)))>>
                        \o Tail(rest)
                 ELSE rest
        kept == IF cur_line # <<>> /\ IsBlank(cur_line[Len(cur_line)])
                THEN DropLast(cur_line)
                ELSE cur_line
    IN  WrapChunks(after, width,
                   IF kept # <<>> THEN Append(done, Join(kept)) ELSE done)

\* textwrap.fill(text, width), as the sequence of its lines
textwrap_fill(txt, width) ==
  WrapChunks(Split(MungeWhitespace(txt), 1), width, <<>>)

(***************************************************************************)
(* The wrap on its own: a text of up to MaxWrapPieces pieces (a word, a    *)
(* space, a hyphenated word, a word longer than a line, a dash), or the    *)
(* sample sentence of the wrap test.                                       *)
(***************************************************************************)
Word19 == [i \in 1..19 |-> "a"]

Word46 == [i \in 1..(LINE_LENGTH + 1) |-> "b"]

WellKnown == <<"w", "e", "l", "l", "-", "k", "n", "o", "w", "n">>

WrapPieces == {Word19, <<" ">>, WellKnown, Word46, <<"-", "-">>}

sample_quote ==
  <<"T", "h", "e", " ", "d", "a", "t", "e", " ", "w", "a", "s",
    " ", "t", "h", "e", " ", "1", "4", "t", "h", " ", "o", "f",
    " ", "M", "a", "y", " ", "a", "n", "d", " ", "t", "h", "e",
    " ", "c", "l", "o", "c", "k", " ", "o", "n", " ", "h", "i",
    "s", " ", "d", "e", "s", "k", " ", "s", "a", "i", "d", " ",
    "t", "h", "e", " ", "t", "i", "m", "e", " ", "w", "a", "s",
    " ", "t", "w", "e", "n", "t", "y", " ", "t", "h", "r", "e",
    "e", " ", "m", "i", "n", "u", "t", "e", "s", " ", "p", "a",
    "s", "t", " ", "t", "e", "n", ",", " ", "s", "o", " ", "h",
    "e", " ", "t", "a", "p", "p", "e", "d", " ", "i", "n", " ",
    "t", "h", "e", " ", "n", "u", "m", "b", "e", "r", "s", " ",
    "1", "0", ".", "2", "3", ".">>

WrapInputs ==
  {sample_quote} \cup
  UNION {{Join(pieces) : pieces \in [1..n -> WrapPieces]} : n \in 0..MaxWrapPieces}

\* a render wraps the text
Wrap ==
  /\ lines = NotWrapped
  /\ lines' = textwrap_fill(quote_text, LINE_LENGTH)
  /\ UNCHANGED <<consumerVars, readerVars, tickerVars, now, now_ms, typist,
                 quote_text, cleaned, clock_data, lookup, event_queue, running,
                 run_pc>>

InitWrap == \E qt \in WrapInputs : InitState(StartMinute, "none", qt)

NextWrap == Wrap

SpecWrap == InitWrap /\ [][NextWrap]_vars

\* the six key events that spell the command
ClockKeys == <<<<";">>, <<"c">>, <<"l">>, <<"o">>, <<"c">>, <<"k">>>>

\* this step is the consumer handling a key event
KeyStep == nkeys' = nkeys + 1 /\ last'.type = "key"

(***************************************************************************)
(* C1: a key handled in Typewriter mode switches to Clock mode if and only *)
(* if the last six keys typed in this Typewriter session, that key         *)
(* included, are exactly ; c l o c k.                                      *)
(***************************************************************************)
C1_FiresIffSuffix ==
  [][(mode = "typewriter" /\ KeyStep)
       => ((mode' = "clock") <=> (keyHist' = ClockKeys))]_vars

\* ';;clock' was typed: the command fired with a character before it
C1_Witness ==
  /\ mode = "clock"
  /\ keyHist = ClockKeys
  /\ text = <<";", ";", "c", "l", "o", "c">>

(***************************************************************************)
(* C6: the key that switches Clock -> Typewriter is consumed: TypedText is *)
(* empty after it, CommandBuffer is unchanged by it and no render is       *)
(* attempted; so after ';clock' typed from Clock mode, when only c l o c k *)
(* were typed in Typewriter mode, the machine is still in Typewriter mode. *)
(***************************************************************************)
C6_SwitchKeyConsumed ==
  [][/\ (mode = "clock" /\ KeyStep)
          => /\ mode' = "typewriter"
             /\ text' = <<>>
             /\ command_buffer' = command_buffer
             /\ last'.render = "none"
     /\ (mode' = "clock" /\ KeyStep) => Len(keyHist') = CMD_WINDOW]_vars

\* ';clock' typed from Clock mode: the ';' switched, 'clock' was typed
C6_Witness ==
  /\ mode = "typewriter"
  /\ keyHist = <<<<"c">>, <<"l">>, <<"o">>, <<"c">>, <<"k">>>>
  /\ text = <<"c", "l", "o", "c", "k">>
  /\ command_buffer = <<"c", "l", "o", "c", "k">>

\* this step is the consumer handling an event
EventStep == nkeys' = nkeys + 1

(***************************************************************************)
(* C2: after every key event, whatever was typed before and however long   *)
(* the key's token is, CommandBuffer holds at most 6 characters.           *)
(***************************************************************************)
C2_BufferAtMostSix == Len(command_buffer) <= 6

\* 'backspace' then 'enter': 14 characters were added, 6 are kept
C2_Witness ==
  /\ last.data = KeyEnter
  /\ command_buffer = <<"e", "e", "n", "t", "e", "r">>

(***************************************************************************)
(* C7: _process_typewriter_key changes TypedText so: 'backspace' removes   *)
(* exactly the last character and does nothing to an empty text; 'enter'   *)
(* appends space, line break, space; 'space' appends one space; any other  *)
(* key appends its character.                                              *)
(***************************************************************************)
C7_TypedTextRules ==
  [][(KeyStep /\ last'.render = "typewriter") =>
       /\ last'.data = KeyBackspace /\ text = <<>> => text' = <<>>
       /\ last'.data = KeyBackspace /\ text # <<>>
            => Len(text') = Len(text) - 1 /\ text = Append(text', text[Len(text)])
       /\ last'.data = KeyEnter => text' = text \o <<" ", "\n", " ">>
       /\ last'.data = KeySpace => text' = text \o <<" ">>
       /\ last'.data \notin {KeyBackspace, KeyEnter, KeySpace}
            => text' = text \o last'.data]_vars

\* 'h', 'enter', 'space', 'backspace' were typed: the space was taken back
C7_Witness ==
  /\ last.type = "key" /\ last.render = "typewriter"
  /\ last.data = KeyBackspace
  /\ text = <<"h", " ", "\n", " ">>

\* this step is run() rendering the initial quote or handling an event
HandlerStep == EventStep \/ (run_pc = "start" /\ run_pc' = "loop")

\* the entries _update_clock_display may append for the minute t
EntriesAt(t) ==
  {DisplayText(qd, HourOf(t), MinuteOf(t)) : qd \in get_quote(HourOf(t), MinuteOf(t))}

\* TypedText after a key, by the rules of C7
TypedAfter(txt, key) ==
  IF key = KeyBackspace
  THEN IF txt = <<>> THEN <<>> ELSE [i \in 1..(Len(txt) - 1) |-> txt[i]]
  ELSE IF key = KeyEnter THEN txt \o <<" ", "\n", " ">>
  ELSE IF key = KeySpace THEN txt \o <<" ">>
  ELSE txt \o key

\* a handler whose render timed out: the loop runs on and the change it made
\* to TypedText or QuoteHistory is in place
TimeoutKeepsChange ==
  (HandlerStep /\ last'.outcome = "timeout") =>
     /\ running' /\ run_pc' = "loop"
     /\ last'.render = "typewriter" => text' = TypedAfter(text, last'.data)
     /\ last'.render = "clock" =>
          /\ clock_quotes' # <<>>
          /\ clock_quotes'[Len(clock_quotes')]
               \in EntriesAt(IF last'.type = "key" THEN now ELSE last'.data[1])
          /\ (last'.type # "key" /\ Len(clock_quotes) < QUOTE_CAP)
               => SubSeq(clock_quotes', 1, Len(clock_quotes)) = clock_quotes
                  /\ Len(clock_quotes') = Len(clock_quotes) + 1

(***************************************************************************)
(* C10 as stated: a TimeoutError of the display handoff is caught, the     *)
(* consumer loop keeps running, the change to TypedText or QuoteHistory is *)
(* kept, and the next event attempts a render.                             *)
(***************************************************************************)
C10_NextEventRenders ==
  [][/\ TimeoutKeepsChange
     /\ (last.outcome = "timeout" /\ EventStep) => last'.render # "none"]_vars

(***************************************************************************)
(* C10, amended: a TimeoutError of the display handoff is caught, the      *)
(* consumer loop keeps running, the change to TypedText or QuoteHistory is *)
(* kept, and the next event attempts a render unless it is a key handled   *)
(* in Clock mode, which only switches to Typewriter mode.                  *)
(***************************************************************************)
C10_TimeoutKeepsState ==
  [][/\ TimeoutKeepsChange
     /\ (last.outcome = "timeout" /\ EventStep
           /\ ~(mode = "clock" /\ last'.type = "key"))
          => last'.render # "none"]_vars

\* the render of the second typed key timed out: both keys are in TypedText
C10_Witness ==
  /\ last.type = "key" /\ last.render = "typewriter"
  /\ last.outcome = "timeout"
  /\ text = <<"h", "K">>
  /\ running /\ run_pc = "loop"

\* a step in which _update_clock_display was called
ClockCallStep == HandlerStep /\ last'.render = "clock"

\* C3: after every call of _update_clock_display the history holds at most
\* 15 entries; a call from run() or for a clock_update event appends the
\* entry of its minute after the entries already there, and when there were
\* already 15 it is the oldest that goes: the other 14 keep their order
C3_HistoryCappedFifo ==
  [][ClockCallStep =>
       /\ Len(clock_quotes') <= 15
       /\ (last'.type # "key") =>
            IF Len(clock_quotes) = 15
            THEN /\ Len(clock_quotes') = 15
                 /\ \A i \in 1..14 : clock_quotes'[i] = clock_quotes[i + 1]
                 /\ clock_quotes'[15] \in EntriesAt(last'.data[1])
            ELSE /\ Len(clock_quotes') = Len(clock_quotes) + 1
                 /\ \A i \in 1..Len(clock_quotes) :
                      clock_quotes'[i] = clock_quotes[i]
                 /\ clock_quotes'[Len(clock_quotes')] \in
                      EntriesAt(last'.data[1])]_vars

\* the call of run() and fifteen clock_update events: the sixteenth entry
\* has been appended to a history of fifteen
C3_Witness ==
  /\ nkeys >= 15
  /\ last.type = "clock_update"
  /\ Len(clock_quotes) = 15

\* C4: a key event handled in Clock mode leaves the mode Typewriter, the
\* text empty, the command buffer empty and the vertical offset at 150
C4_ExitClockResets ==
  [][(mode = "clock" /\ KeyStep) =>
       /\ mode' = "typewriter"
       /\ text' = <<>>
       /\ command_buffer' = <<>>
       /\ y_offset' = 150]_vars

\* the page script is over: its last key was handled in Clock mode, after a
\* Typewriter session that left a page of text and a lowered offset behind
C4_Witness ==
  /\ typist.script = "page"
  /\ nkeys >= Len(Script("page"))
  /\ last.type = "key" /\ last.render = "none"
  /\ mode = "typewriter"
  /\ text = <<>>
  /\ y_offset = START_Y_OFFSET

\* C5: the key event that completes ;clock in Typewriter mode ends in Clock
\* mode with the history holding one entry, that of the current minute, the
\* command buffer empty and one clock render attempted
C5_CommandEntersClock ==
  [][(mode = "typewriter" /\ KeyStep /\ keyHist' = ClockKeys) =>
       /\ mode' = "clock"
       /\ clock_quotes' \in {<<e>> : e \in EntriesAt(now)}
       /\ command_buffer' = <<>>
       /\ last'.render = "clock"]_vars

\* hi;clock has been typed in a Typewriter session, a minute or more after
\* the start
C5_Witness ==
  /\ typist.script = "hi"
  /\ last.type = "key" /\ last.data = <<"k">> /\ last.render = "clock"
  /\ keyHist = ClockKeys
  /\ text = <<"h", "i", ";", "c", "l", "o", "c">>
  /\ mode = "clock"
  /\ now > StartMinute
  /\ Len(clock_quotes) = 1

\* C9: the ticker puts a clock_update event in the queue only when the
\* (hour, minute) it reads differs from the last pair it recorded, it
\* records the pair it puts, and no minute is put twice
C9_OneTickPerMinute ==
  [][(Len(ticked') > Len(ticked)) =>
       /\ <<HourOf(now), MinuteOf(now)>> # last_minute
       /\ last_minute' = <<HourOf(now), MinuteOf(now)>>
       /\ \A i \in 1..Len(ticked) : ticked[i] # now]_vars

\* two minutes were put, the second was handled, and the ticker polls again
\* within that minute
C9_Witness ==
  /\ Len(ticked) >= 2
  /\ ticker_pc = "polling" /\ running /\ mode = "clock"
  /\ last_minute = <<HourOf(now), MinuteOf(now)>>
  /\ event_queue = <<>>

\* the reader, running, read a key-down of a key other than shift
KeyDownStep ==
  /\ nraw' = nraw + 1
  /\ running /\ kbd_pc = "reading"
  /\ raw'.keystate = "down"
  /\ raw'.keycode \notin {KEY_LEFTSHIFT, KEY_RIGHTSHIFT}

\* a key event was enqueued before, less than 50 ms ago
WithinDebounce ==
  accepted # <<>> /\ now_ms - accepted[Len(accepted)] < 50

\* C8: a key-down read less than 50 ms after the last enqueued key event
\* enqueues nothing; a key-down of a key the decoder maps, read 50 ms or
\* more after it (or before any was enqueued), is enqueued as one key event
C8_DebounceGate ==
  [][KeyDownStep =>
       IF WithinDebounce
       THEN event_queue' = event_queue /\ accepted' = accepted
       ELSE (raw'.keycode = KEY_A) =>
              /\ Len(event_queue') = Len(event_queue) + 1
              /\ event_queue'[Len(event_queue')].type = "key"
              /\ event_queue'[Len(event_queue')].data \in {<<"a">>, <<"A">>}
              /\ accepted' = Append(accepted, now_ms)]_vars

\* two key-downs of the letter 60 ms apart were both enqueued, and a third
\* one 10 ms after the second was not
C8_Witness ==
  /\ Len(accepted) = 2
  /\ accepted[2] - accepted[1] = 60
  /\ nraw = 3
  /\ raw.keycode = KEY_A /\ raw.keystate = "down"
  /\ raw.time - accepted[2] = 10

\* C11: when the device read fails the reader ends, for good, and sets
\* running to False; running never becomes True again; once it is False the
\* loop of run() ends, whatever is left in the queue
C11_DisconnectStops ==
  /\ [][(kbd_pc' = "disconnected") =>
          /\ ~running'
          /\ kbd_pc \in {"reading", "disconnected"}
          /\ (kbd_pc = "disconnected" =>
                nraw' = nraw /\ accepted' = accepted /\ raw' = raw)]_vars
  /\ [][kbd_pc = "disconnected" => kbd_pc' = "disconnected"]_vars
  /\ [][~running => ~running']_vars
  /\ (~running ~> run_pc = "done")

\* the device failed after a key was enqueued, and run() ended with that key
\* still in the queue
C11_Witness ==
  /\ kbd_pc = "disconnected"
  /\ run_pc = "done"
  /\ ~running
  /\ event_queue # <<>>
  /\ nkeys = 0

\* the reader, running, read a key-down of a key other than shift that the
\* debounce gate lets through
DecodeStep == KeyDownStep /\ ~WithinDebounce

Enqueued(token) ==
  event_queue' = Append(event_queue, [type |-> "key", data |-> token])

\* the symbols of the digit keys 0 1 2 ... 9 with shift
ShiftedDigits == <<")", "!", "@", "#", "$", "%", "^", "&", "*", "(">>

\* C12: the decoder maps a letter key to the lowercase letter without shift
\* and the uppercase letter with shift, a digit key to the digit without
\* shift and the symbol of the table with shift, space, backspace and enter
\* to their tokens whatever the shift state, and an unmapped key to nothing:
\* no event is enqueued for it
C12_DecoderTable ==
  [][DecodeStep =>
       /\ \A i \in 1..26 :
            (raw'.keycode = <<"K", "E", "Y", "_", UpperLetters[i]>>) =>
              Enqueued(IF shift_pressed THEN <<UpperLetters[i]>>
                                        ELSE <<LowerLetters[i]>>)
       /\ \A i \in 1..10 :
            (raw'.keycode = <<"K", "E", "Y", "_", DigitChars[i]>>) =>
              Enqueued(IF shift_pressed THEN <<ShiftedDigits[i]>>
                                        ELSE <<DigitChars[i]>>)
       /\ (raw'.keycode = KEY_SPACE) => Enqueued(<<"s", "p", "a", "c", "e">>)
       /\ (raw'.keycode = KEY_BACKSPACE) =>
            Enqueued(<<"b", "a", "c", "k", "s", "p", "a", "c", "e">>)
       /\ (raw'.keycode = KEY_ENTER) => Enqueued(<<"e", "n", "t", "e", "r">>)
       /\ (raw'.keycode \in {KEY_F1, KEY_TAB, KEY_ESC, BTN_A}) =>
            event_queue' = event_queue /\ accepted' = accepted]_vars

\* the digit key 1 was read with shift held and gave !
C12_Witness ==
  /\ shift_pressed
  /\ raw.keycode = KEY_1 /\ raw.keystate = "down"
  /\ event_queue = <<[type |-> "key", data |-> <<"!">>]>>

\* a shift key is physically down, by the events read so far
ShiftHeld ==
  \/ PhysHeld(typist.script, nraw, KEY_LEFTSHIFT)
  \/ PhysHeld(typist.script, nraw, KEY_RIGHTSHIFT)

\* C13: whatever key-down, key-hold and key-up events the two shift keys
\* have produced, shift_pressed is true exactly while a shift key is down
C13_ShiftTracksHeld == (kbd_pc = "reading") => (shift_pressed <=> ShiftHeld)

\* the minute _update_clock_display was called for in this step
CalledFor == IF last'.type = "key" THEN now ELSE last'.data[1]

\* 'No quote found for HH:MM' for the minute t
Placeholder(t) ==
  <<"N", "o", " ", "q", "u", "o", "t", "e", " ", "f", "o", "u", "n", "d", " ",
    "f", "o", "r", " ">>
    \o <<DigitChars[(HourOf(t) \div 10) + 1], DigitChars[(HourOf(t) % 10) + 1],
         ":",
         DigitChars[(MinuteOf(t) \div 10) + 1],
         DigitChars[(MinuteOf(t) % 10) + 1]>>

\* no row is loaded for the minute t (rows are loaded for 09:05, 10:23 and
\* 10:25)
NoRowFor(t) ==
  /\ ~(HourOf(t) = 10 /\ MinuteOf(t) \in {23, 25})
  /\ ~(HourOf(t) = 9 /\ MinuteOf(t) = 5)

\* C14: a call of _update_clock_display for a minute without a quote ends
\* normally with the placeholder as the last entry of the history, at most
\* 15 entries, and one clock render attempted
C14_MissingQuotePlaceholder ==
  [][(ClockCallStep /\ NoRowFor(CalledFor)) =>
       /\ clock_quotes' # <<>>
       /\ clock_quotes'[Len(clock_quotes')] = Placeholder(CalledFor)
       /\ Len(clock_quotes') <= 15
       /\ (last'.type # "key") =>
            clock_quotes' =
              (IF Len(clock_quotes) = 15
               THEN SubSeq(clock_quotes, 2, 15)
               ELSE clock_quotes) \o <<Placeholder(CalledFor)>>
       /\ last'.render = "clock"
       /\ last'.outcome \in {"ok", "timeout"}
       /\ run_pc' = "loop" /\ running']_vars

\* the clock_update event of 10:24, a minute without a quote, was handled
C14_Witness ==
  /\ last.type = "clock_update" /\ last.data = <<StartMinute + 1>>
  /\ Len(clock_quotes) >= 2
  /\ clock_quotes[Len(clock_quotes)] =
       <<"N", "o", " ", "q", "u", "o", "t", "e", " ", "f", "o", "u", "n", "d",
         " ", "f", "o", "r", " ", "1", "0", ":", "2", "4">>

\* C15: the sanitizer is idempotent: cleaning a cleaned text changes nothing
C15_SanitizerIdempotent ==
  \A i \in 2..Len(cleaned) : cleaned[i] = cleaned[i - 1]

\* the rows loaded for the time code HH:MM of the call
RowsFor(hour, minute) ==
  {row \in UNION {{QUOTES[tc][i] : i \in 1..Len(QUOTES[tc])} : tc \in DOMAIN QUOTES} :
     row.time = <<DigitChars[(hour \div 10) + 1], DigitChars[(hour % 10) + 1],
                  ":",
                  DigitChars[(minute \div 10) + 1],
                  DigitChars[(minute % 10) + 1]>>}

\* C16: get_quote(hour, minute) returns None exactly when no loaded row has
\* the zero-padded time code HH:MM, otherwise one of the rows loaded for that
\* time code, and the loaded data stay as they were
C16_GetQuoteByTimeCode ==
  lookup.called =>
    /\ (lookup.result = None) <=> (RowsFor(lookup.hour, lookup.minute) = {})
    /\ (lookup.result # None) =>
         lookup.result[1] \in RowsFor(lookup.hour, lookup.minute)
    /\ clock_data = QUOTES

\* the call for 9 hours 5 minutes found the row of 09:05
C16_Witness ==
  /\ lookup.called /\ lookup.hour = 9 /\ lookup.minute = 5
  /\ lookup.result # None
  /\ lookup.result[1].source = "D"

\* the characters of a text that are no whitespace
NonSpace(s) == SelectSeq(s, LAMBDA c : ~IsSpace(c))

\* the words of a text: <<a, b>> when a word holds the a+1-th to the b-th of
\* the text's non-whitespace characters
WordSpans(s) ==
  LET starts == {i \in 1..Len(s) : ~IsSpace(s[i]) /\ (i = 1 \/ IsSpace(s[i - 1]))}
      endOf(i) == CHOOSE j \in i..Len(s) :
                    /\ \A k \in i..j : ~IsSpace(s[k])
                    /\ (j = Len(s) \/ IsSpace(s[j + 1]))
      before(i) == Len(NonSpace(SubSeq(s, 1, i - 1)))
  IN  {<<before(i), before(i) + (endOf(i) - i + 1)>> : i \in starts}

\* where the lines end: after how many non-whitespace characters
LineBreaks == {Len(NonSpace(Join(SubSeq(lines, 1, k)))) : k \in 1..(Len(lines) - 1)}

\* the line breaks that fall inside a word of at most LINE_LENGTH characters
BreaksInShortWords ==
  {b \in LineBreaks :
     \E w \in WordSpans(quote_text) :
       w[1] < b /\ b < w[2] /\ w[2] - w[1] <= LINE_LENGTH}

\* C17 as stated: the wrap never splits a word unless that word alone is
\* longer than 45 characters, no line is longer than 45 characters unless it
\* is one such word, and the sample sentence wraps into at least 4 lines.
C17_WrapKeepsWords ==
  lines # NotWrapped =>
    /\ BreaksInShortWords = {}
    /\ \A k \in 1..Len(lines) :
         \/ Len(lines[k]) <= LINE_LENGTH
         \/ \A i \in 1..Len(lines[k]) : lines[k][i] # " "
    /\ (quote_text = sample_quote => Len(lines) >= 4)

\* C17, amended: the wrap keeps every character that is no whitespace, in
\* order; it splits a word of at most 45 characters only next to a hyphen of
\* the word (after a hyphen between letters, before or after a dash of two or
\* more hyphens); a longer word is broken across lines, so that no line is
\* ever longer than 45 characters; the sample sentence wraps into 4 lines.
C17_WrapSplitsAtHyphens ==
  lines # NotWrapped =>
    /\ NonSpace(Join(lines)) = NonSpace(quote_text)
    /\ \A b \in BreaksInShortWords :
         LET s == NonSpace(quote_text) IN s[b] = "-" \/ s[b + 1] = "-"
    /\ \A k \in 1..Len(lines) : Len(lines[k]) <= LINE_LENGTH
    /\ (quote_text = sample_quote => Len(lines) = 4)

\* a hyphenated word of ten characters split over two lines, both lines
\* within the width
C17_Witness ==
  /\ quote_text = Word19 \o <<" ">> \o Word19 \o <<" ">> \o WellKnown
  /\ lines = <<Word19 \o <<" ">> \o Word19 \o <<" ", "w", "e", "l", "l", "-">>,
               <<"k", "n", "o", "w", "n">>>>

\* CommandBuffer with a key appended, cut to its last six characters
BufferAfter(buf, key) ==
  LET b == buf \o key
  IN  IF Len(b) > CMD_WINDOW THEN SubSeq(b, Len(b) - CMD_WINDOW + 1, Len(b)) ELSE b

\* C18 as stated: every key handled in Typewriter mode is applied to
\* CommandBuffer and to TypedText, the key that completes ';clock' included:
\* it is appended to TypedText and the switch to Clock mode only takes the
\* place of the typewriter render.
C18_EveryKeyTyped ==
  [][(mode = "typewriter" /\ KeyStep) =>
       /\ text' = TypedAfter(text, last'.data)
       /\ IF BufferAfter(command_buffer, last'.data) = ClockCommand
          THEN mode' = "clock" /\ last'.render = "clock"
          ELSE /\ mode' = "typewriter" /\ last'.render = "typewriter"
               /\ command_buffer' = BufferAfter(command_buffer, last'.data)]_vars

\* C18, amended: a key handled in Typewriter mode is appended to
\* CommandBuffer, cut to its last six characters; unless that completes
\* ';clock' the key is applied to TypedText and a typewriter render is
\* attempted; the key that completes ';clock' is not applied to TypedText,
\* which keeps its value: the machine enters Clock mode with a clock render
\* and an empty CommandBuffer.
C18_CommandKeyNotTyped ==
  [][(mode = "typewriter" /\ KeyStep) =>
       IF BufferAfter(command_buffer, last'.data) = ClockCommand
       THEN /\ mode' = "clock" /\ last'.render = "clock"
            /\ text' = text
            /\ command_buffer' = <<>>
       ELSE /\ mode' = "typewriter" /\ last'.render = "typewriter"
            /\ text' = TypedAfter(text, last'.data)
            /\ command_buffer' = BufferAfter(command_buffer, last'.data)]_vars

\* ';clock' was typed into an empty text: the text holds no 'k'
C18_Witness ==
  /\ mode = "clock"
  /\ last.type = "key" /\ last.data = <<"k">> /\ last.render = "clock"
  /\ text = <<";", "c", "l", "o", "c">>
  /\ command_buffer = <<>>

\* C19 as stated: after every typewriter render VerticalOffset is the start
\* value minus floor(len(TypedText) * 0.007), whatever was rendered before.
C19_OffsetFromLength ==
  last.render = "typewriter" =>
    y_offset = START_Y_OFFSET - ((7 * Len(text)) \div 1000)

\* C19, amended: every typewriter render attempt lowers VerticalOffset by
\* floor(len(TypedText) * 0.007) from the value the last render left, so the
\* offset depends on the renders made since the machine entered Typewriter
\* mode; only a key handled in Clock mode sets it back to the start value, and
\* nothing else changes it.
C19_OffsetAccumulates ==
  [][/\ (EventStep /\ last'.render = "typewriter")
          => y_offset' = y_offset - ((7 * Len(text')) \div 1000)
     /\ (EventStep /\ last'.render # "typewriter")
          => y_offset' = IF mode = "clock" /\ last'.type = "key"
                         THEN START_Y_OFFSET ELSE y_offset
     /\ ~EventStep => y_offset' = y_offset]_vars

\* a page of 'enter' keys and five more keys: the text is long enough for one
\* pixel, and six renders or more each took one
C19_Witness ==
  /\ last.render = "typewriter"
  /\ Len(text) = 3 * PageEnters + 5
  /\ (7 * Len(text)) \div 1000 = 1
  /\ y_offset <= START_Y_OFFSET - 6

\* C20: a clock_update event consumed in Clock mode leaves the mode Clock and
\* TypedText, CommandBuffer and VerticalOffset as they were; the history gets
\* exactly one new entry, at its end (the oldest entry making room when there
\* were 15): the cleaned quote, or the placeholder, of the event's hour and
\* minute; and exactly one render, a clock render, is attempted.
C20_ClockUpdateInClockMode ==
  [][(mode = "clock" /\ EventStep /\ last'.type = "clock_update") =>
       /\ mode' = "clock"
       /\ text' = text
       /\ command_buffer' = command_buffer
       /\ y_offset' = y_offset
       /\ \E entry \in EntriesAt(last'.data[1]) :
            clock_quotes' =
              (IF Len(clock_quotes) = QUOTE_CAP THEN Tail(clock_quotes)
               ELSE clock_quotes) \o <<entry>>
       /\ last'.render = "clock"
       /\ last'.outcome \in RenderOutcomes]_vars

\* 'hi;clock' was typed and the minute changed: the update was handled in
\* Clock mode with the typed text still in place
C20_Witness ==
  /\ mode = "clock"
  /\ last.type = "clock_update" /\ last.render = "clock"
  /\ text = <<"h", "i", ";", "c", "l", "o", "c">>
  /\ y_offset = START_Y_OFFSET
  /\ Len(clock_quotes) = 2

\* this step is one of keyboard_read_loop: a raw event read, or the OSError
ReaderStep ==
  nraw' = nraw + 1 \/ (kbd_pc = "reading" /\ kbd_pc' = "disconnected")

\* this step is one of clock_update_loop: an event put, or the loop's end
TickerStep ==
  ticked' # ticked \/ (ticker_pc = "polling" /\ ticker_pc' = "done")

\* the state owned by the consumer
OwnedState == <<mode, text, command_buffer, clock_quotes, y_offset>>

\* C21: in every interleaving a step of keyboard_read_loop or of
\* clock_update_loop leaves Mode, TypedText, CommandBuffer, QuoteHistory and
\* VerticalOffset alone: all it does to the state shared with the consumer is
\* to put at most one event at the end of the queue and to set running to
\* false; these five fields change only in a step of run().
C21_OnlyConsumerWrites ==
  /\ [][(ReaderStep \/ TickerStep) =>
          /\ OwnedState' = OwnedState
          /\ run_pc' = run_pc
          /\ \/ event_queue' = event_queue
             \/ /\ Len(event_queue') = Len(event_queue) + 1
                /\ SubSeq(event_queue', 1, Len(event_queue)) = event_queue
          /\ (running' = running \/ ~running')]_vars
  /\ [][OwnedState' # OwnedState => HandlerStep]_vars

\* shift, a, a were read, the ticker has put an event and the keyboard was
\* unplugged: the consumer typed 'A', the reader cleared the running flag
C21_Witness ==
  /\ kbd_pc = "disconnected" /\ ~running
  /\ nraw = 3 /\ shift_pressed
  /\ ticked # <<>>
  /\ mode = "typewriter" /\ text = <<"A">>

\* C22: a clock_update event dequeued while the mode is Typewriter has no
\* effect: QuoteHistory stays as it is and no clock render is attempted;
\* QuoteHistory changes and clock renders happen only in steps that end in
\* Clock mode.
C22_StaleUpdateIgnored ==
  /\ [][(EventStep /\ last'.type = "clock_update" /\ mode = "typewriter") =>
          /\ clock_quotes' = clock_quotes
          /\ last'.render # "clock"]_vars
  /\ [][(clock_quotes' # clock_quotes \/ ClockCallStep) => mode' = "clock"]_vars

\* the minutes an entry of the history may stand for
MinutesOf(entry) ==
  {t \in StartMinute..(StartMinute + MaxClockTicks + MaxTicks) :
     entry \in EntriesAt(t)}

\* C23: while the machine stays in Clock mode QuoteHistory holds at most one
\* entry per wall-clock minute: the entry made by run() at startup or by
\* _enter_clock_mode is not followed by one for the same minute from a
\* clock_update event.
C23_OneEntryPerMinute ==
  mode = "clock" =>
    \A i, j \in 1..Len(clock_quotes) :
      i < j => MinutesOf(clock_quotes[i]) \cap MinutesOf(clock_quotes[j]) = {}

\* C24: between two events, CommandBuffer is empty whenever the mode is
\* Clock; so the key that leaves Clock mode starts the Typewriter session
\* with an empty CommandBuffer, and nothing typed before a ';clock' command
\* takes part in the next session's command detection.
C24_ClockModeBufferEmpty ==
  /\ [](mode = "clock" => command_buffer = <<>>)
  /\ [][(mode = "clock" /\ KeyStep) =>
          mode' = "typewriter" /\ command_buffer' = <<>> /\ keyHist' = <<>>]_vars

\* 'c;clock' was typed: the machine is in Clock mode, the text typed before
\* the command is still there, the buffer is empty
C24_Witness ==
  /\ mode = "clock"
  /\ last.type = "key" /\ last.render = "clock"
  /\ text = <<"c", ";", "c", "l", "o", "c">>
  /\ command_buffer = <<>>

\* the number of events the producers have put on the queue so far
PutCount == typist.pos + Len(ticked)

\* the event a handler records in last, as it was on the queue
Handled(ev) ==
  /\ last'.type = ev.type
  /\ last'.data = IF ev.type = "key" THEN ev.data ELSE <<ev.data>>

\* C25: while running stays true and every render returns, every event put
\* on the queue is handled exactly once and in the order of the puts: a put
\* adds the event at the end of the queue, the consumer handles the event at
\* the head and removes just that one, whether its render ended normally or
\* timed out; the events handled and the events waiting are together the
\* events put; and as neither count ever falls and again and again all events
\* put have been handled, the n-th event put is eventually handled, as the
\* n-th.
C25_EveryEventHandledInOrder ==
  /\ [](nkeys + Len(event_queue) = PutCount)
  /\ [][IF EventStep
        THEN /\ event_queue # <<>>
             /\ Handled(Head(event_queue))
             /\ last'.outcome \in {"none"} \cup RenderOutcomes
             /\ event_queue' = Tail(event_queue)
             /\ PutCount' = PutCount
        ELSE \/ event_queue' = event_queue /\ PutCount' = PutCount
             \/ /\ PutCount' = PutCount + 1
                /\ Len(event_queue') = Len(event_queue) + 1
                /\ SubSeq(event_queue', 1, Len(event_queue)) = event_queue]_vars
  /\ [][nkeys' >= nkeys /\ PutCount' >= PutCount]_vars
  /\ []<>(nkeys = PutCount)

\* all ten keys of 'h hi;clock h' and two clock updates were put and all
\* twelve events have been handled, the last key last
C25_Witness ==
  /\ typist.script = "hi" /\ typist.pos = 10
  /\ Len(ticked) = 2
  /\ event_queue = <<>>
  /\ nkeys = 12
  /\ mode = "typewriter" /\ last.type = "key" /\ last.data = <<"h">>

====
